---- MODULE Spec2Model ----
(***************************************************************************)
(* A model of the request-interception middleware of go-http-middleware    *)
(* (src/middleware.go): NewMiddleware, AddLogger, ServeHTTP,               *)
(* ServeFastHTTP, counters, log and newUUID, with the goroutines that      *)
(* ServeHTTP/ServeFastHTTP and log start, the package-level RWMutex and    *)
(* the process-wide expvar registry.                                       *)
(*                                                                         *)
(* Strings that the code builds (URLs) are sequences of tokens, so that    *)
(* strings.HasSuffix and the password removal are computed, not assumed.   *)
(***************************************************************************)
EXTENDS Integers, Sequences, FiniteSets, TLC

(***************************************************************************)
(* Bounds of the model.                                                    *)
(***************************************************************************)
\* number of inbound requests over the life of the process
MaxReq == 2
\* number of registered sinks (the default one included)
MaxSinks == 2

ReqIds == 1..MaxReq

Nil == "nil"

(***************************************************************************)
(* Program constants.                                                      *)
(***************************************************************************)
DefaultBrokenUUID == "cd9bbcae-e076-549f-82bf-a08e8c838dd3"

XRequestID == "X-Request-ID"

\* strings.HasSuffix(..., "/__/counters"), as tokens
CountersSuffix == <<"/__", "/counters">>

TestResponseBody == "hello, world!"

(***************************************************************************)
(* net/url: a URL is a record of its userinfo and its path; String()       *)
(* renders scheme://userinfo@host/path, the userinfo being the username    *)
(* followed by ":" and the password when a password is set.                *)
(***************************************************************************)
NoUser == [username |-> "", password |-> "", passwordSet |-> FALSE, isNil |-> TRUE]

\* url.UserPassword(username, password)
UserPassword(username, password) ==
    [username |-> username, password |-> password, passwordSet |-> TRUE, isNil |-> FALSE]

\* url.User(username)
User(username) ==
    [username |-> username, password |-> "", passwordSet |-> FALSE, isNil |-> FALSE]

UserinfoString(u) ==
    IF u.isNil THEN <<>>
    ELSE <<u.username>> \o (IF u.passwordSet THEN <<":", u.password>> ELSE <<>>) \o <<"@">>

\* (*url.URL).String()
URLString(u) ==
    <<"https://">> \o UserinfoString(u.User) \o <<"example.com">> \o u.Path

\* strings.HasSuffix
HasSuffix(s, suffix) ==
    /\ Len(s) >= Len(suffix)
    /\ SubSeq(s, Len(s) - Len(suffix) + 1, Len(s)) = suffix

\* The URLs requests arrive with: the URL of the tests, the diagnostic route
\* with credentials, and a plain route.
TestURL == [User |-> UserPassword("user", "pass"), Path |-> <<>>]
CountersURL == [User |-> UserPassword("user", "pass"), Path |-> CountersSuffix]
PlainURL == [User |-> NoUser, Path |-> <<"/a">>]

URLs == {TestURL, CountersURL, PlainURL}

\* SanitizeURL without lines 130-136: the URL is logged and counted as it
\* arrived
SanitizeURLKeep(u) == u

\* ServeHTTP lines 130-136: the password is dropped from the request's URL
\* in place (r.URL.User is reassigned), the username is kept.
SanitizeURL(u) ==
    IF ~u.User.isNil /\ u.User.passwordSet
    THEN [u EXCEPT !.User = User(u.User.username)]
    ELSE u

\* fasthttp's (*URI).String(): scheme://host/path with an empty path
\* rendered as "/". The userinfo is part of the host in the releases that do
\* not parse it and is dropped in the releases that do; keep selects
\* between the two.
FastURIString(u, keep) ==
    <<"https://">> \o (IF keep THEN UserinfoString(u.User) ELSE <<>>)
        \o <<"example.com">> \o (IF u.Path = <<>> THEN <<"/">> ELSE u.Path)

(***************************************************************************)
(* HTTP headers are sets of <<name, value>> pairs with one value per name. *)
(***************************************************************************)
HeaderKeys(h) == {p[1] : p \in h}

\* Header.Set(k, v), and h[k] = v
HeaderSet(h, k, v) == {p \in h : p[1] # k} \cup {<<k, v>>}

HeaderHas(h, k, v) == <<k, v>> \in h

\* ServeHTTP lines 138-140: for k, v := range rec.Header() { w.Header()[k] = v }
CopyHeaders(from, to) == {p \in to : p[1] \notin HeaderKeys(from)} \cup from

\* A piece of a response body: text written by a handler, or the JSON
\* object json.Marshal made of a counter snapshot.
TextChunk(t) == [text |-> t, isJSON |-> FALSE, json |-> {}]
JSONChunk(snapshot) == [text |-> "", isJSON |-> TRUE, json |-> snapshot]

(***************************************************************************)
(* The response a handler writes to: httptest.NewRecorder() in ServeHTTP,  *)
(* ctx.Response in ServeFastHTTP.  Code is 200 until the handler sets it.  *)
(***************************************************************************)
NewRecorder == [Code |-> 200, Header |-> {}, Body |-> <<>>, wroteHeader |-> FALSE]

\* (*ResponseRecorder).WriteHeader: the first call decides the code
RecWriteHeader(rec, code) ==
    IF rec.wroteHeader THEN rec
    ELSE [rec EXCEPT !.Code = code, !.wroteHeader = TRUE]

\* (*ResponseRecorder).Write: an implicit WriteHeader(200), which also
\* sets Content-Type when the handler set none, then the bytes
RecWrite(rec, b) ==
    LET typed == IF rec.wroteHeader \/ "Content-Type" \in HeaderKeys(rec.Header)
                 THEN rec
                 ELSE [rec EXCEPT !.Header =
                          HeaderSet(rec.Header, "Content-Type", "text/plain; charset=utf-8")]
        headed == RecWriteHeader(typed, 200)
    IN  [headed EXCEPT !.Body = Append(headed.Body, TextChunk(b))]

\* fasthttp: ctx.Response.SetStatusCode, ctx.Write
CtxSetStatusCode(resp, code) == [resp EXCEPT !.Code = code]
CtxWrite(resp, chunk) == [resp EXCEPT !.Body = Append(resp.Body, chunk)]

\* One statement of a wrapped handler.
Op(op, code, k, v) == [op |-> op, code |-> code, k |-> k, v |-> v]

ApplyOp(resp, o, entry) ==
    IF o.op = "SetHeader" THEN [resp EXCEPT !.Header = HeaderSet(resp.Header, o.k, o.v)]
    ELSE IF o.op = "WriteHeader"
         THEN (IF entry = "http" THEN RecWriteHeader(resp, o.code)
               ELSE CtxSetStatusCode(resp, o.code))
    ELSE IF o.op = "Write"
         THEN (IF entry = "http" THEN RecWrite(resp, o.v)
               ELSE CtxWrite(resp, TextChunk(o.v)))
    ELSE resp

\* The statements of a handler up to its first panic, applied in order.
RECURSIVE RunOps(_, _, _)
RunOps(ops, resp, entry) ==
    IF ops = <<>> \/ Head(ops).op = "Panic" THEN resp
    ELSE RunOps(Tail(ops), ApplyOp(resp, Head(ops), entry), entry)

Panics(ops) == \E i \in 1..Len(ops) : ops[i].op = "Panic"

(***************************************************************************)
(* The handlers NewMiddleware is given.  TestAPI and TestFourOhFourAPI are *)
(* the handlers of the tests; the others set their own X-Request-ID, panic,*)
(* implement FasthttpHandler, both interfaces, or neither.                 *)
(***************************************************************************)
Handler(name, net, fast, prog) ==
    [name |-> name, isNetHTTP |-> net, isFastHTTP |-> fast, prog |-> prog]

TestAPI ==
    Handler("TestAPI", TRUE, FALSE, <<Op("Write", 0, "", TestResponseBody)>>)
TestFourOhFourAPI ==
    Handler("TestFourOhFourAPI", TRUE, FALSE,
            <<Op("WriteHeader", 404, "", ""), Op("Write", 0, "", TestResponseBody)>>)
OwnIDAPI ==
    Handler("OwnIDAPI", TRUE, FALSE,
            <<Op("SetHeader", 0, XRequestID, "handler-id"),
              Op("SetHeader", 0, "Content-Type", "application/json"),
              Op("Write", 0, "", TestResponseBody)>>)
PanicAPI ==
    Handler("PanicAPI", TRUE, FALSE,
            <<Op("WriteHeader", 500, "", ""), Op("Write", 0, "", TestResponseBody),
              Op("Panic", 0, "", "")>>)
FastAPI ==
    Handler("FastAPI", FALSE, TRUE,
            <<Op("SetHeader", 0, XRequestID, "handler-id"),
              Op("WriteHeader", 404, "", ""), Op("Write", 0, "", TestResponseBody)>>)
DualAPI ==
    Handler("DualAPI", TRUE, TRUE, <<Op("Write", 0, "", TestResponseBody)>>)
NotAHandler ==
    Handler("NotAHandler", FALSE, FALSE, <<>>)

Handlers == {TestAPI, TestFourOhFourAPI, OwnIDAPI, PanicAPI, FastAPI, DualAPI, NotAHandler}

\* What a sink's Log does when it is called: return, never return, or panic.
SinkModes == {"ok", "block", "panic"}

\* The sinks that AddLogger appends while requests are served: a Log that
\* never returns differs from one that returns only in holding its own
\* goroutine, so the appended sinks return or panic and the default sink
\* returns or never does.
AddedSinkModes == {"ok", "panic"}

(***************************************************************************)
(* State.                                                                  *)
(***************************************************************************)
VARIABLES
    constructed,  \* NewMiddleware returned (it did not panic)
    handler,      \* m.handler
    loggers,      \* m.loggers: the sinks in order, each by what its Log does
    Requests,     \* m.Requests: key -> the name of the *expvar.Int stored there
    Requests2,    \* the Requests of a second Middleware of the same process
    via,          \* per request: the Middleware (1 or 2) whose method is called
    expvarInts,   \* the process-wide expvar registry: name -> value of that Int
    lock,         \* the package-level sync.RWMutex
    crashed,      \* the process died of a panic in a goroutine ("no" if alive)
    entropyOK,    \* uuid.NewV4 succeeds
    keepUserinfo, \* the fasthttp release keeps userinfo in URI().String()
    pc,           \* per request: where ServeHTTP/ServeFastHTTP stands
    entry,        \* per request: "http" (ServeHTTP) or "fast" (ServeFastHTTP)
    inURL,        \* per request: the URL the request arrived with
    reqURL,       \* per request: r.URL as it is now
    requestID,    \* per request: the local requestID
    t0,           \* per request: the start time (0 is the zero time.Time)
    rec,          \* per request: the recorder (ServeHTTP) or ctx.Response
    resp,         \* per request: ServeHTTP's local resp
    w,            \* per request: the real response writer
    logpc,        \* per request: where its log goroutine stands
    logArgs,      \* per request: the arguments of go m.log(...)
    ok,           \* per request: log's local ok
    sinkpc,       \* per request and sink: where go logger.Log(l) stands
    sinkGot       \* per request and sink: the entries Log was called with

vars == <<constructed, handler, loggers, Requests, Requests2, via, expvarInts, lock, crashed,
          entropyOK, keepUserinfo, pc, entry, inURL, reqURL, requestID, t0, rec,
          resp, w, logpc, logArgs, ok, sinkpc, sinkGot>>

shared == <<constructed, handler, loggers, Requests, Requests2, expvarInts, lock, crashed,
            entropyOK, keepUserinfo>>

\* http.ResponseWriter: Header() is the live map, sent the headers as they
\* were when WriteHeader was called.
NewWriter == [Header |-> {}, sent |-> {}, status |-> 0, body |-> <<>>, wroteHeader |-> FALSE]

WHeaderSet(rw, k, v) == [rw EXCEPT !.Header = HeaderSet(rw.Header, k, v)]

WWriteHeader(rw, status) ==
    IF rw.wroteHeader THEN rw
    ELSE [rw EXCEPT !.status = status, !.sent = rw.Header, !.wroteHeader = TRUE]

WWrite(rw, b) ==
    LET headed == WWriteHeader(rw, 200)
    IN  [headed EXCEPT !.body = headed.body \o b]

\* newUUID(): a fresh identifier, or DefaultBrokenUUID when uuid.NewV4
\* fails.  Version 4 UUIDs are taken to be unique: the n-th call site of the
\* model gets the n-th identifier.
newUUID(n) ==
    IF entropyOK THEN "uuid-" \o ToString(n) ELSE DefaultBrokenUUID

\* the call sites: ServeHTTP/ServeFastHTTP of request r, log of request r
RequestUUID(r) == newUUID(2 * r - 1)
CounterUUID(r) == newUUID(2 * r)

EmptyMap == [k \in {} |-> Nil]

\* newDefaultLogger(): the sink that prints to os.Stdout; its Log returns
\* when the write does, which is never when nobody reads a full stdout.
newDefaultLogger(stdout) == stdout

\* NewMiddleware with the type check of lines 77-79 left out: any value is
\* accepted as a handler
NewMiddlewareUnchecked(h, stdout) ==
    [panicked |-> FALSE, handler |-> h, loggers |-> <<newDefaultLogger(stdout)>>,
     Requests |-> EmptyMap]

\* NewMiddleware: panics unless h is an http.Handler or a FasthttpHandler
NewMiddleware(h, stdout) ==
    IF ~h.isNetHTTP /\ ~h.isFastHTTP
    THEN [panicked |-> TRUE, handler |-> h, loggers |-> <<>>, Requests |-> EmptyMap]
    ELSE [panicked |-> FALSE, handler |-> h, loggers |-> <<newDefaultLogger(stdout)>>,
          Requests |-> EmptyMap]

\* m.counters(): the value of every counter in m.Requests
counters ==
    JSONChunk({<<k, expvarInts[Requests[k]]>> : k \in DOMAIN Requests})

\* counters() of the second Middleware
counters2 ==
    JSONChunk({<<k, expvarInts[Requests2[k]]>> : k \in DOMAIN Requests2})

\* m.Requests, m being the Middleware i
RequestsOf(i) == IF i = 1 THEN Requests ELSE Requests2

Init ==
    /\ \E h \in Handlers, stdout \in {"ok", "block"} :
          LET m == NewMiddleware(h, stdout)
          IN  /\ constructed = ~m.panicked
              /\ handler = m.handler
              /\ loggers = m.loggers
              /\ Requests = m.Requests
              /\ Requests2 = m.Requests
    /\ via = [r \in ReqIds |-> 1]
    /\ expvarInts = EmptyMap
    /\ lock = [writer |-> 0, readers |-> {}]
    /\ crashed = "no"
    /\ entropyOK \in BOOLEAN
    /\ keepUserinfo \in (IF handler.isFastHTTP THEN BOOLEAN ELSE {TRUE})
    /\ pc = [r \in ReqIds |-> "idle"]
    /\ entry = [r \in ReqIds |-> "none"]
    /\ inURL = [r \in ReqIds |-> PlainURL]
    /\ reqURL = [r \in ReqIds |-> PlainURL]
    /\ requestID = [r \in ReqIds |-> ""]
    /\ t0 = [r \in ReqIds |-> 0]
    /\ rec = [r \in ReqIds |-> NewRecorder]
    /\ resp = [r \in ReqIds |-> <<>>]
    /\ w = [r \in ReqIds |-> NewWriter]
    /\ logpc = [r \in ReqIds |-> "none"]
    /\ logArgs = [r \in ReqIds |-> [requestID |-> "", t0 |-> 0, status |-> 0, url |-> <<>>]]
    /\ ok = [r \in ReqIds |-> FALSE]
    /\ sinkpc = [r \in ReqIds |-> [s \in 1..MaxSinks |-> "none"]]
    /\ sinkGot = [r \in ReqIds |-> [s \in 1..MaxSinks |-> <<>>]]

Running == constructed /\ crashed = "no"

\* sync.RWMutex
CanRLock == lock.writer = 0
CanLock == lock.writer = 0 /\ lock.readers = {}

(***************************************************************************)
(* AddLogger, lines 101-103: m.loggers = append(m.loggers, l).  It takes   *)
(* no lock and has no precondition, so a sink can be appended before,      *)
(* between and during requests.  The append races with the range of line   *)
(* 208, which reads m.loggers once, when the loop begins: the loop sees    *)
(* the slice as it was before the append (LogStart, then AddLogger), as    *)
(* it is after it (AddLogger, then LogStart), or a mixture of the two      *)
(* (LoggersRace).                                                          *)
(***************************************************************************)
AddLogger(mode) ==
    /\ Running
    /\ Len(loggers) < MaxSinks
    /\ loggers' = Append(loggers, mode)
    /\ UNCHANGED <<constructed, handler, Requests, Requests2, via, expvarInts, lock, crashed,
                   entropyOK, keepUserinfo, pc, entry, inURL, reqURL, requestID, t0,
                   rec, resp, w, logpc, logArgs, ok, sinkpc, sinkGot>>

\* Requests are numbered in the order in which they arrive.
Arrives(r) ==
    /\ Running
    /\ pc[r] = "idle"
    /\ \A q \in ReqIds : q < r => pc[q] # "idle"

(***************************************************************************)
(* time.Now() as request r reads it: a logical clock with one tick for     *)
(* each position that the request's ServeHTTP or ServeFastHTTP has left.   *)
(* Only the order of one request's own readings and steps is kept; 0 is    *)
(* not a reading, it is the zero time.Time.                                *)
(***************************************************************************)
Now(r) ==
    CASE pc[r] = "idle" -> 1
      [] pc[r] = "invoked" -> 2
      [] pc[r] = "recorded" -> 3
      [] OTHER -> 4

\* ServeHTTP line 125, ServeFastHTTP line 168
IsDiagnostic(urlString) == HasSuffix(urlString, CountersSuffix)

(***************************************************************************)
(* ServeHTTP, lines 117-128: a recorder, the identifier, the start time   *)
(* t0 := time.Now() of line 123, then either the counter snapshot or the   *)
(* wrapped handler (a type assertion that panics when m.handler is no      *)
(* http.Handler).                                                          *)
(***************************************************************************)
ServeHTTPBegin(r, u) ==
    /\ Arrives(r)
    /\ entry' = [entry EXCEPT ![r] = "http"]
    /\ inURL' = [inURL EXCEPT ![r] = u]
    /\ reqURL' = [reqURL EXCEPT ![r] = u]
    /\ requestID' = [requestID EXCEPT ![r] = RequestUUID(r)]
    /\ t0' = [t0 EXCEPT ![r] = Now(r)]
    /\ rec' = [rec EXCEPT ![r] = NewRecorder]
    /\ IF IsDiagnostic(URLString(u))
       THEN /\ resp' = [resp EXCEPT ![r] = <<counters>>]
            /\ pc' = [pc EXCEPT ![r] = "recorded"]
       ELSE /\ resp' = resp
            /\ pc' = [pc EXCEPT ![r] = IF handler.isNetHTTP THEN "invoked" ELSE "panicked"]
    /\ UNCHANGED <<shared, via, w, logpc, logArgs, ok, sinkpc, sinkGot>>

\* HandlerServeHTTP inside a deferred recover() that lets ServeHTTP go on:
\* what the handler recorded before it panicked is answered and logged
HandlerServeHTTPRecovered(r) ==
    /\ Running
    /\ pc[r] = "invoked"
    /\ entry[r] = "http"
    /\ rec' = [rec EXCEPT ![r] = RunOps(handler.prog, rec[r], "http")]
    /\ pc' = [pc EXCEPT ![r] = "recorded"]
    /\ UNCHANGED <<shared, via, entry, inURL, reqURL, requestID, t0, resp, w, logpc,
                   logArgs, ok, sinkpc, sinkGot>>

\* ServeHTTP line 128: the wrapped handler runs against the recorder; its
\* panic propagates to ServeHTTP's caller.
HandlerServeHTTP(r) ==
    /\ Running
    /\ pc[r] = "invoked"
    /\ entry[r] = "http"
    /\ rec' = [rec EXCEPT ![r] = RunOps(handler.prog, rec[r], "http")]
    /\ pc' = [pc EXCEPT ![r] = IF Panics(handler.prog) THEN "panicked" ELSE "recorded"]
    /\ UNCHANGED <<shared, via, entry, inURL, reqURL, requestID, t0, resp, w, logpc,
                   logArgs, ok, sinkpc, sinkGot>>

\* ServeHTTP, lines 117-128, called on the second Middleware, which
\* NewMiddleware made of the same handler and which has the same sinks:
\* from here on the request goes the way of ServeHTTPBegin, its log
\* working on Requests2.
ServeHTTPBeginSecond(r, u) ==
    /\ Arrives(r)
    /\ via' = [via EXCEPT ![r] = 2]
    /\ entry' = [entry EXCEPT ![r] = "http"]
    /\ inURL' = [inURL EXCEPT ![r] = u]
    /\ reqURL' = [reqURL EXCEPT ![r] = u]
    /\ requestID' = [requestID EXCEPT ![r] = RequestUUID(r)]
    /\ t0' = [t0 EXCEPT ![r] = Now(r)]
    /\ rec' = [rec EXCEPT ![r] = NewRecorder]
    /\ IF IsDiagnostic(URLString(u))
       THEN /\ resp' = [resp EXCEPT ![r] = <<counters2>>]
            /\ pc' = [pc EXCEPT ![r] = "recorded"]
       ELSE /\ resp' = resp
            /\ pc' = [pc EXCEPT ![r] = IF handler.isNetHTTP THEN "invoked" ELSE "panicked"]
    /\ UNCHANGED <<shared, w, logpc, logArgs, ok, sinkpc, sinkGot>>

\* ResponseStatus with line 142 forgotten: the status stays the 200 of line 118
ResponseStatusDefault(diag, recorder) == 200

\* ServeHTTP lines 118, 142: status is 200 unless the handler ran
ResponseStatus(diag, recorder) == IF diag THEN 200 ELSE recorder.Code

\* ResponseBody with line 141 after the else branch, not in it: the
\* snapshot of line 126 is overwritten by the empty recorder's body
ResponseBodyRecorded(diag, recorder, snapshot) == recorder.Body

\* ServeHTTP lines 117, 126, 141
ResponseBody(diag, recorder, snapshot) == IF diag THEN snapshot ELSE recorder.Body

\* WriteResponse with line 145 moved before the copy of lines 138-140: a
\* header the handler recorded under the same name replaces the identifier
WriteResponseIdFirst(rw, diag, recorder, snapshot, id) ==
    LET identified == WHeaderSet(rw, XRequestID, id)
        copied == IF diag THEN identified
                  ELSE [identified EXCEPT
                           !.Header = CopyHeaders(recorder.Header, identified.Header)]
        headed == WWriteHeader(copied, ResponseStatus(diag, recorder))
    IN  WWrite(headed, ResponseBody(diag, recorder, snapshot))

\* ServeHTTP lines 138-147: the recorded headers (when the handler ran), the
\* identifier header, the status and the body, in that order
WriteResponse(rw, diag, recorder, snapshot, id) ==
    LET copied == IF diag THEN rw
                  ELSE [rw EXCEPT !.Header = CopyHeaders(recorder.Header, rw.Header)]
        identified == WHeaderSet(copied, XRequestID, id)
        headed == WWriteHeader(identified, ResponseStatus(diag, recorder))
    IN  WWrite(headed, ResponseBody(diag, recorder, snapshot))

\* LoggedStatus with the literal of line 118 passed to log
LoggedStatusDefault(recorder) == 200

\* ServeHTTP line 152, ServeFastHTTP line 179: the status passed to log is
\* rec.Code, ctx.Response.StatusCode()
LoggedStatus(recorder) == recorder.Code

\* RespondAndSpawn with go m.log(...) of line 152 before lines 145-147 and
\* the writes then forgotten: log runs for a request nothing was written for
SpawnUnwritten(r) ==
    LET diag == IsDiagnostic(URLString(reqURL[r]))
        u == IF diag THEN reqURL[r] ELSE SanitizeURL(reqURL[r])
    IN  /\ reqURL' = [reqURL EXCEPT ![r] = u]
        /\ resp' = [resp EXCEPT ![r] = ResponseBody(diag, rec[r], resp[r])]
        /\ logArgs' = [logArgs EXCEPT ![r] =
                          [requestID |-> requestID[r], t0 |-> t0[r],
                           status |-> LoggedStatus(rec[r]),
                           url |-> URLString(u)]]
        /\ logpc' = [logpc EXCEPT ![r] = "spawned"]
        /\ pc' = [pc EXCEPT ![r] = "returned"]
        /\ UNCHANGED <<shared, via, entry, inURL, requestID, t0, rec, w, ok, sinkpc, sinkGot>>

\* ServeHTTP lines 130-152 after the handler (or the snapshot): the password
\* is dropped from r.URL when the handler ran, the response is written, and
\* log is started in a goroutine of its own with rec.Code and r.URL.String().
RespondAndSpawn(r) ==
    LET diag == IsDiagnostic(URLString(reqURL[r]))
        u == IF diag THEN reqURL[r] ELSE SanitizeURL(reqURL[r])
    IN  /\ reqURL' = [reqURL EXCEPT ![r] = u]
        /\ resp' = [resp EXCEPT ![r] = ResponseBody(diag, rec[r], resp[r])]
        /\ w' = [w EXCEPT ![r] = WriteResponse(w[r], diag, rec[r], resp[r], requestID[r])]
        /\ logArgs' = [logArgs EXCEPT ![r] =
                          [requestID |-> requestID[r], t0 |-> t0[r],
                           status |-> LoggedStatus(rec[r]),
                           url |-> URLString(u)]]
        /\ logpc' = [logpc EXCEPT ![r] = "spawned"]
        /\ pc' = [pc EXCEPT ![r] = "returned"]
        /\ UNCHANGED <<shared, via, entry, inURL, requestID, t0, rec, ok, sinkpc, sinkGot>>

\* ServeHTTPRespond with log called in place (m.log(...) without go): the
\* call returns only once log has had the lock
ServeHTTPRespondSync(r) ==
    /\ Running
    /\ pc[r] = "recorded"
    /\ entry[r] = "http"
    /\ CanLock
    /\ RespondAndSpawn(r)

ServeHTTPRespond(r) ==
    /\ Running
    /\ pc[r] = "recorded"
    /\ entry[r] = "http"
    /\ RespondAndSpawn(r)

(***************************************************************************)
(* ServeFastHTTP, lines 165-174: the identifier header is set on           *)
(* ctx.Response first, then the snapshot is written or the handler runs.   *)
(***************************************************************************)
ServeFastHTTPBegin(r, u) ==
    /\ Arrives(r)
    /\ entry' = [entry EXCEPT ![r] = "fast"]
    /\ inURL' = [inURL EXCEPT ![r] = u]
    /\ reqURL' = [reqURL EXCEPT ![r] = u]
    /\ requestID' = [requestID EXCEPT ![r] = RequestUUID(r)]
    \* ctx.ConnTime() of line 179: the reading fasthttp took when it accepted
    \* the connection, before it called ServeFastHTTP
    /\ t0' = [t0 EXCEPT ![r] = Now(r)]
    /\ LET identified == [NewRecorder EXCEPT !.Header =
                             HeaderSet(NewRecorder.Header, XRequestID, RequestUUID(r))]
       IN  IF IsDiagnostic(FastURIString(u, keepUserinfo))
           THEN /\ rec' = [rec EXCEPT ![r] = CtxWrite(identified, counters)]
                /\ pc' = [pc EXCEPT ![r] = "recorded"]
           ELSE /\ rec' = [rec EXCEPT ![r] = identified]
                /\ pc' = [pc EXCEPT ![r] =
                             IF handler.isFastHTTP THEN "invoked" ELSE "panicked"]
    /\ UNCHANGED <<shared, via, resp, w, logpc, logArgs, ok, sinkpc, sinkGot>>

\* ServeFastHTTP line 173: the wrapped handler runs against ctx itself
HandlerHandle(r) ==
    /\ Running
    /\ pc[r] = "invoked"
    /\ entry[r] = "fast"
    /\ rec' = [rec EXCEPT ![r] = RunOps(handler.prog, rec[r], "fast")]
    /\ pc' = [pc EXCEPT ![r] = IF Panics(handler.prog) THEN "panicked" ELSE "recorded"]
    /\ UNCHANGED <<shared, via, entry, inURL, reqURL, requestID, t0, resp, w, logpc,
                   logArgs, ok, sinkpc, sinkGot>>

\* ServeFastHTTP lines 179-180: log is started in a goroutine of its own
\* and ServeFastHTTP returns to the server that called it; nothing has
\* been sent yet.
ServeFastHTTPReturn(r) ==
    /\ Running
    /\ pc[r] = "recorded"
    /\ entry[r] = "fast"
    /\ logArgs' = [logArgs EXCEPT ![r] =
                      [requestID |-> requestID[r], t0 |-> t0[r],
                       status |-> LoggedStatus(rec[r]),
                       url |-> FastURIString(reqURL[r], keepUserinfo)]]
    /\ logpc' = [logpc EXCEPT ![r] = "spawned"]
    /\ pc' = [pc EXCEPT ![r] = "unsent"]
    /\ UNCHANGED <<shared, via, entry, inURL, reqURL, requestID, t0, rec, resp, w, ok,
                   sinkpc, sinkGot>>

\* After the return of line 180 the fasthttp server sends ctx.Response as
\* the handler left it, while the log goroutine of the request runs.
FasthttpSendResponse(r) ==
    /\ Running
    /\ pc[r] = "unsent"
    /\ entry[r] = "fast"
    /\ w' = [w EXCEPT ![r] =
                [Header |-> rec[r].Header, sent |-> rec[r].Header,
                 status |-> rec[r].Code, body |-> rec[r].Body, wroteHeader |-> TRUE]]
    /\ pc' = [pc EXCEPT ![r] = "returned"]
    /\ UNCHANGED <<shared, via, entry, inURL, reqURL, requestID, t0, rec, resp, logpc,
                   logArgs, ok, sinkpc, sinkGot>>

\* m.Requests[url] = ... of line 230 is running in some log goroutine
MapWriteInProgress == \E q \in ReqIds : logpc[q] = "creating" /\ via[q] = 1

RaceOutcomes == {"fatal error: concurrent map read and map write",
                 "nil pointer dereference"}

(***************************************************************************)
(* counters, lines 182-191, takes no lock: when it ranges over m.Requests  *)
(* while line 230 is storing into it, the read is a data race.  Besides    *)
(* the snapshot of ServeHTTPBegin and ServeFastHTTPBegin, the runtime may  *)
(* end the process on the concurrent map access, or the loop may find the  *)
(* new key with no counter behind it yet and panic in v.Value().           *)
(***************************************************************************)
CountersRace(r, u, e, outcome) ==
    /\ Arrives(r)
    /\ IsDiagnostic(IF e = "http" THEN URLString(u) ELSE FastURIString(u, keepUserinfo))
    /\ MapWriteInProgress
    /\ entry' = [entry EXCEPT ![r] = e]
    /\ inURL' = [inURL EXCEPT ![r] = u]
    /\ reqURL' = [reqURL EXCEPT ![r] = u]
    /\ requestID' = [requestID EXCEPT ![r] = RequestUUID(r)]
    /\ t0' = [t0 EXCEPT ![r] = Now(r)]
    /\ rec' = [rec EXCEPT ![r] =
                  IF e = "http" THEN NewRecorder
                  ELSE [NewRecorder EXCEPT !.Header =
                           HeaderSet(NewRecorder.Header, XRequestID, RequestUUID(r))]]
    /\ pc' = [pc EXCEPT ![r] = "panicked"]
    /\ crashed' = IF outcome = "nil pointer dereference" THEN crashed ELSE outcome
    /\ UNCHANGED <<constructed, handler, loggers, Requests, Requests2, via, expvarInts, lock,
                   entropyOK, keepUserinfo, resp, w, logpc, logArgs, ok, sinkpc,
                   sinkGot>>

(***************************************************************************)
(* log, lines 193-237, one step per statement that another goroutine can   *)
(* observe or be blocked by.                                               *)
(***************************************************************************)
\* lines 197-206 (the duration, the address and the user agent are not
\* modelled)
LogEntry(args) ==
    [RequestID |-> args.requestID, Status |-> args.status, Time |-> args.t0,
     URL |-> args.url]

\* line 208: for _, logger := range m.loggers
SinksToCall(n) == 1..n

\* lines 194-210: the entry is built and every sink's Log is started in a
\* goroutine of its own
LogStart(r) ==
    /\ Running
    /\ logpc[r] = "spawned"
    /\ sinkpc' = [sinkpc EXCEPT ![r] =
                     [s \in 1..MaxSinks |->
                         IF s \in SinksToCall(Len(loggers)) THEN "pending" ELSE "none"]]
    /\ logpc' = [logpc EXCEPT ![r] = "check"]
    /\ UNCHANGED <<shared, via, pc, entry, inURL, reqURL, requestID, t0, rec, resp, w,
                   logArgs, ok, sinkGot>>

(***************************************************************************)
(* The range of line 208 while line 102 is appending: neither takes a      *)
(* lock, and the append stores the three words of the slice header and the *)
(* two words of the new element one after the other.  The loop can load    *)
(* the new length before the element is stored, or a pointer and a length  *)
(* of different writes: the sinks that were there before the append are    *)
(* read whole and their goroutines are started, and the element after them *)
(* is a nil or foreign interface value.                                    *)
(***************************************************************************)
LoggersRace(r, mode) ==
    /\ Running
    /\ logpc[r] = "spawned"
    /\ Len(loggers) < MaxSinks
    /\ loggers' = Append(loggers, mode)
    /\ sinkpc' = [sinkpc EXCEPT ![r] =
                     [s \in 1..MaxSinks |->
                         IF s \in SinksToCall(Len(loggers)) THEN "pending" ELSE "none"]]
    /\ logpc' = [logpc EXCEPT ![r] = "torn"]
    /\ UNCHANGED <<constructed, handler, Requests, Requests2, via, expvarInts, lock, crashed,
                   entropyOK, keepUserinfo, pc, entry, inURL, reqURL, requestID, t0,
                   rec, resp, w, logArgs, ok, sinkGot>>

\* line 209 on the element that was not stored yet: go logger.Log(l) panics
\* in the log goroutine, nobody recovers it and the process ends before
\* the counter of lines 213-236 is reached
LogNilSink(r) ==
    /\ Running
    /\ logpc[r] = "torn"
    /\ logpc' = [logpc EXCEPT ![r] = "panicked"]
    /\ crashed' = "nil sink in log"
    /\ UNCHANGED <<constructed, handler, loggers, Requests, Requests2, via, expvarInts, lock,
                   entropyOK, keepUserinfo, pc, entry, inURL, reqURL, requestID, t0,
                   rec, resp, w, logArgs, ok, sinkpc, sinkGot>>

\* go logger.Log(l): the sink gets the entry, then returns, never returns,
\* or panics; a panic in a goroutine nobody recovers ends the process.
SinkLog(r, s) ==
    /\ Running
    /\ sinkpc[r][s] = "pending"
    /\ sinkGot' = [sinkGot EXCEPT ![r][s] = Append(@, LogEntry(logArgs[r]))]
    /\ sinkpc' = [sinkpc EXCEPT ![r][s] =
                     CASE loggers[s] = "ok" -> "returned"
                       [] loggers[s] = "block" -> "blocked"
                       [] OTHER -> "panicked"]
    /\ crashed' = IF loggers[s] = "panic" THEN "panic in a sink" ELSE crashed
    /\ UNCHANGED <<constructed, handler, loggers, Requests, Requests2, via, expvarInts, lock,
                   entropyOK, keepUserinfo, pc, entry, inURL, reqURL, requestID, t0,
                   rec, resp, w, logpc, logArgs, ok>>

\* lines 213-214: lock.RLock(); _, ok := m.Requests[url]
LogRLock(r) ==
    /\ Running
    /\ logpc[r] = "check"
    /\ CanRLock
    /\ lock' = [lock EXCEPT !.readers = @ \cup {r}]
    /\ ok' = [ok EXCEPT ![r] = logArgs[r].url \in DOMAIN RequestsOf(via[r])]
    /\ logpc' = [logpc EXCEPT ![r] = "checking"]
    /\ UNCHANGED <<constructed, handler, loggers, Requests, Requests2, via, expvarInts, crashed,
                   entropyOK, keepUserinfo, pc, entry, inURL, reqURL, requestID, t0,
                   rec, resp, w, logArgs, sinkpc, sinkGot>>

\* LogRUnlock without the lock.RUnlock() of line 215
LogRUnlockForgotten(r) ==
    /\ Running
    /\ logpc[r] = "checking"
    /\ logpc' = [logpc EXCEPT ![r] = IF ok[r] THEN "add" ELSE "create"]
    /\ UNCHANGED <<constructed, handler, loggers, Requests, Requests2, via, expvarInts, crashed,
                   entropyOK, keepUserinfo, pc, entry, inURL, reqURL, requestID, t0,
                   rec, resp, w, logArgs, ok, sinkpc, sinkGot, lock>>

\* lines 215-217: lock.RUnlock(); if !ok
LogRUnlock(r) ==
    /\ Running
    /\ logpc[r] = "checking"
    /\ lock' = [lock EXCEPT !.readers = @ \ {r}]
    /\ logpc' = [logpc EXCEPT ![r] = IF ok[r] THEN "add" ELSE "create"]
    /\ UNCHANGED <<constructed, handler, loggers, Requests, Requests2, via, expvarInts, crashed,
                   entropyOK, keepUserinfo, pc, entry, inURL, reqURL, requestID, t0,
                   rec, resp, w, logArgs, ok, sinkpc, sinkGot>>

\* expvar.NewInt(name) panics when the name is already published
NewIntPanics(name) == name \in DOMAIN expvarInts

\* m.Requests[url] = v
MapStore(m, k, v) == [x \in DOMAIN m \cup {k} |-> IF x = k THEN v ELSE m[x]]

\* lines 229-230: lock.Lock(); m.Requests[url] = expvar.NewInt(newUUID()).
\* The panic of expvar.NewInt is in the log goroutine: the process ends.
LogLockCreate(r) ==
    /\ Running
    /\ logpc[r] = "create"
    /\ CanLock
    /\ lock' = [lock EXCEPT !.writer = r]
    /\ LET name == CounterUUID(r)
       IN  IF NewIntPanics(name)
           THEN /\ crashed' = "panic in expvar.NewInt"
                /\ UNCHANGED <<Requests, Requests2, expvarInts>>
           ELSE /\ expvarInts' = MapStore(expvarInts, name, 0)
                /\ IF via[r] = 1
                   THEN /\ Requests' = MapStore(Requests, logArgs[r].url, name)
                        /\ Requests2' = Requests2
                   ELSE /\ Requests2' = MapStore(Requests2, logArgs[r].url, name)
                        /\ Requests' = Requests
                /\ crashed' = crashed
    /\ logpc' = [logpc EXCEPT ![r] = "creating"]
    /\ UNCHANGED <<constructed, handler, loggers, via, entropyOK, keepUserinfo, pc,
                   entry, inURL, reqURL, requestID, t0, rec, resp, w, logArgs, ok,
                   sinkpc, sinkGot>>

\* line 231: lock.Unlock()
LogUnlockCreate(r) ==
    /\ Running
    /\ logpc[r] = "creating"
    /\ lock' = [lock EXCEPT !.writer = 0]
    /\ logpc' = [logpc EXCEPT ![r] = "add"]
    /\ UNCHANGED <<constructed, handler, loggers, Requests, Requests2, via, expvarInts, crashed,
                   entropyOK, keepUserinfo, pc, entry, inURL, reqURL, requestID, t0,
                   rec, resp, w, logArgs, ok, sinkpc, sinkGot>>

\* lines 234-235: lock.Lock(); m.Requests[url].Add(1)
LogLockAdd(r) ==
    /\ Running
    /\ logpc[r] = "add"
    /\ CanLock
    /\ lock' = [lock EXCEPT !.writer = r]
    /\ expvarInts' = [expvarInts EXCEPT ![RequestsOf(via[r])[logArgs[r].url]] = @ + 1]
    /\ logpc' = [logpc EXCEPT ![r] = "adding"]
    /\ UNCHANGED <<constructed, handler, loggers, Requests, Requests2, via, crashed, entropyOK,
                   keepUserinfo, pc, entry, inURL, reqURL, requestID, t0, rec, resp,
                   w, logArgs, ok, sinkpc, sinkGot>>

\* line 236: lock.Unlock(), and log returns
LogUnlockAdd(r) ==
    /\ Running
    /\ logpc[r] = "adding"
    /\ lock' = [lock EXCEPT !.writer = 0]
    /\ logpc' = [logpc EXCEPT ![r] = "done"]
    /\ UNCHANGED <<constructed, handler, loggers, Requests, Requests2, via, expvarInts, crashed,
                   entropyOK, keepUserinfo, pc, entry, inURL, reqURL, requestID, t0,
                   rec, resp, w, logArgs, ok, sinkpc, sinkGot>>

Next ==
    \/ \E mode \in AddedSinkModes : AddLogger(mode)
    \/ \E r \in ReqIds, mode \in AddedSinkModes : LoggersRace(r, mode)
    \/ \E r \in ReqIds : LogNilSink(r)
    \/ \E r \in ReqIds, u \in URLs : ServeHTTPBegin(r, u)
    \/ \E r \in ReqIds : HandlerServeHTTP(r)
    \/ \E r \in ReqIds : ServeHTTPRespond(r)
    \/ \E r \in ReqIds, u \in URLs : ServeFastHTTPBegin(r, u)
    \/ \E r \in ReqIds : HandlerHandle(r)
    \/ \E r \in ReqIds : ServeFastHTTPReturn(r)
    \/ \E r \in ReqIds : FasthttpSendResponse(r)
    \/ \E r \in ReqIds, u \in URLs, e \in {"http", "fast"}, o \in RaceOutcomes :
          CountersRace(r, u, e, o)
    \/ \E r \in ReqIds : LogStart(r)
    \/ \E r \in ReqIds, s \in 1..MaxSinks : SinkLog(r, s)
    \/ \E r \in ReqIds : LogRLock(r)
    \/ \E r \in ReqIds : LogRUnlock(r)
    \/ \E r \in ReqIds : LogLockCreate(r)
    \/ \E r \in ReqIds : LogUnlockCreate(r)
    \/ \E r \in ReqIds : LogLockAdd(r)
    \/ \E r \in ReqIds : LogUnlockAdd(r)

Spec == Init /\ [][Next]_vars

(***************************************************************************)
(* Every operation, for a Middleware around a handler with one capability  *)
(* and with a stdout that is read.  A handler with both capabilities       *)
(* behaves behind each entry point as one with that capability alone, and  *)
(* a default sink whose Log never returns differs from one that returns    *)
(* only in holding its goroutine (SpecStalled).                            *)
(***************************************************************************)
InitSingle ==
    /\ Init
    /\ constructed
    /\ ~(handler.isNetHTTP /\ handler.isFastHTTP)
    /\ loggers = <<newDefaultLogger("ok")>>

SpecSingle == InitSingle /\ [][Next]_vars

(***************************************************************************)
(* ServeHTTP alone: a Middleware around a plain http.Handler, with the     *)
(* default sink only and a working uuid.NewV4.                             *)
(***************************************************************************)
InitHTTP ==
    /\ Init
    /\ handler.isNetHTTP /\ ~handler.isFastHTTP
    /\ entropyOK
    /\ keepUserinfo

NextHTTP ==
    \/ \E r \in ReqIds, u \in URLs : ServeHTTPBegin(r, u)
    \/ \E r \in ReqIds : HandlerServeHTTP(r)
    \/ \E r \in ReqIds : ServeHTTPRespond(r)
    \/ \E r \in ReqIds, u \in URLs, o \in RaceOutcomes : CountersRace(r, u, "http", o)
    \/ \E r \in ReqIds : LogStart(r)
    \/ \E r \in ReqIds, s \in 1..MaxSinks : SinkLog(r, s)
    \/ \E r \in ReqIds : LogRLock(r)
    \/ \E r \in ReqIds : LogRUnlock(r)
    \/ \E r \in ReqIds : LogLockCreate(r)
    \/ \E r \in ReqIds : LogUnlockCreate(r)
    \/ \E r \in ReqIds : LogLockAdd(r)
    \/ \E r \in ReqIds : LogUnlockAdd(r)

SpecHTTP == InitHTTP /\ [][NextHTTP]_vars

(***************************************************************************)
(* ServeHTTP alone, with a stdout that is read: the default sink's Log     *)
(* returns.                                                                *)
(***************************************************************************)
InitServe ==
    /\ InitHTTP
    /\ loggers = <<newDefaultLogger("ok")>>

SpecServe == InitServe /\ [][NextHTTP]_vars

(***************************************************************************)
(* ServeHTTP alone, with a stdout nobody reads: the default sink's Log     *)
(* never returns.                                                          *)
(***************************************************************************)
InitStalled ==
    /\ InitHTTP
    /\ loggers = <<newDefaultLogger("block")>>

SpecStalled == InitStalled /\ [][NextHTTP]_vars

(***************************************************************************)
(* ServeHTTP called for one request at a time: the next request arrives    *)
(* once the log goroutine of every earlier one has returned, as in the     *)
(* tests, which sleep before they look at the counter.                     *)
(***************************************************************************)
InitSeq ==
    /\ Init
    /\ handler.isNetHTTP /\ ~handler.isFastHTTP

NoTaskInFlight ==
    \A q \in ReqIds : pc[q] \in {"idle", "panicked"} \/ logpc[q] = "done"

\* a call of ServeHTTP made when no earlier call has work left
ServeHTTPBeginAlone(r, u) == NoTaskInFlight /\ ServeHTTPBegin(r, u)

NextSeq ==
    \/ \E r \in ReqIds, u \in URLs : ServeHTTPBeginAlone(r, u)
    \/ \E r \in ReqIds : HandlerServeHTTP(r)
    \/ \E r \in ReqIds : ServeHTTPRespond(r)
    \/ \E r \in ReqIds : LogStart(r)
    \/ \E r \in ReqIds, s \in 1..MaxSinks : SinkLog(r, s)
    \/ \E r \in ReqIds : LogRLock(r)
    \/ \E r \in ReqIds : LogRUnlock(r)
    \/ \E r \in ReqIds : LogLockCreate(r)
    \/ \E r \in ReqIds : LogUnlockCreate(r)
    \/ \E r \in ReqIds : LogLockAdd(r)
    \/ \E r \in ReqIds : LogUnlockAdd(r)

SpecSeq == InitSeq /\ [][NextSeq]_vars

(***************************************************************************)
(* The fan-out to the sinks: the handler of TestAPI behind ServeHTTP, a    *)
(* default sink whose Log returns, sinks whose Log returns or panics, all  *)
(* of them appended by AddLogger before the first request arrives (a Log   *)
(* that never returns differs from one that returns only in holding its    *)
(* goroutine), and requests for one proxied route.                         *)
(***************************************************************************)
InitSinks ==
    /\ Init
    /\ handler = TestAPI
    /\ loggers = <<"ok">>
    /\ entropyOK

\* no call of ServeHTTP or ServeFastHTTP has been made
NoTrafficYet == \A r \in ReqIds : pc[r] = "idle"

\* a call of AddLogger made while the Middleware is being set up
AddLoggerBeforeTraffic(mode) == NoTrafficYet /\ AddLogger(mode)

NextSinks ==
    \/ \E mode \in AddedSinkModes : AddLoggerBeforeTraffic(mode)
    \/ \E r \in ReqIds : ServeHTTPBegin(r, PlainURL)
    \/ \E r \in ReqIds : HandlerServeHTTP(r)
    \/ \E r \in ReqIds : ServeHTTPRespond(r)
    \/ \E r \in ReqIds : LogStart(r)
    \/ \E r \in ReqIds, s \in 1..MaxSinks : SinkLog(r, s)
    \/ \E r \in ReqIds : LogRLock(r)
    \/ \E r \in ReqIds : LogRUnlock(r)
    \/ \E r \in ReqIds : LogLockCreate(r)
    \/ \E r \in ReqIds : LogUnlockCreate(r)
    \/ \E r \in ReqIds : LogLockAdd(r)
    \/ \E r \in ReqIds : LogUnlockAdd(r)

SpecSinks == InitSinks /\ [][NextSinks]_vars

(***************************************************************************)
(* Two Middlewares around the handler of TestAPI in one process, sharing   *)
(* the package-level lock and the expvar registry, each called through     *)
(* ServeHTTP for proxied routes.                                           *)
(***************************************************************************)
InitTwo ==
    /\ Init
    /\ handler = TestAPI
    /\ loggers = <<newDefaultLogger("ok")>>

NextTwo ==
    \/ \E r \in ReqIds, u \in {TestURL, PlainURL} : ServeHTTPBegin(r, u)
    \/ \E r \in ReqIds, u \in {TestURL, PlainURL} : ServeHTTPBeginSecond(r, u)
    \/ \E r \in ReqIds : HandlerServeHTTP(r)
    \/ \E r \in ReqIds : ServeHTTPRespond(r)
    \/ \E r \in ReqIds : LogStart(r)
    \/ \E r \in ReqIds, s \in 1..MaxSinks : SinkLog(r, s)
    \/ \E r \in ReqIds : LogRLock(r)
    \/ \E r \in ReqIds : LogRUnlock(r)
    \/ \E r \in ReqIds : LogLockCreate(r)
    \/ \E r \in ReqIds : LogUnlockCreate(r)
    \/ \E r \in ReqIds : LogLockAdd(r)
    \/ \E r \in ReqIds : LogUnlockAdd(r)

SpecTwo == InitTwo /\ [][NextTwo]_vars

(***************************************************************************)
(* Construction and the registration of sinks, before any traffic.         *)
(***************************************************************************)
NextNew == \E mode \in SinkModes : AddLogger(mode)

SpecNew == Init /\ [][NextNew]_vars

(***************************************************************************)
(* Properties.                                                             *)
(***************************************************************************)
Started(r) == logpc[r] # "none"
Done(r) == logpc[r] = "done"

\* the string on which ServeHTTP/ServeFastHTTP decides the diagnostic route
ArrivalString(r) ==
    IF entry[r] = "http" THEN URLString(inURL[r])
    ELSE FastURIString(inURL[r], keepUserinfo)

DiagnosticRequest(r) == entry[r] # "none" /\ IsDiagnostic(ArrivalString(r))

CounterValue(k) == expvarInts[Requests[k]]

\* C1: once every background log task has finished, the counter of a URL
\* holds the number of requests made to that URL (one entry, no lost
\* increment), under every interleaving of the steps of log.
C1_NoLostIncrement ==
    \A r \in ReqIds :
        LET k == logArgs[r].url
            same == {q \in ReqIds : Started(q) /\ logArgs[q].url = k}
        IN  (Started(r) /\ ~DiagnosticRequest(r) /\ \A q \in same : Done(q))
                => /\ k \in DOMAIN Requests
                   /\ CounterValue(k) = Cardinality(same)

\* C2: the counter stored under a key is never replaced by another counter:
\* at most one counter is ever created per key.
C2_CounterNeverReplaced ==
    [][\A k \in DOMAIN Requests :
           ~IsDiagnostic(k) => (k \in DOMAIN Requests' /\ Requests'[k] = Requests[k])]_vars

\* C3: a request for the diagnostic route does not itself create or
\* increment a counter: no step of its background task changes the keys or
\* the values of Requests.
C3_DiagnosticNotCounted ==
    [][\A r \in ReqIds :
           (DiagnosticRequest(r) /\ logpc'[r] # logpc[r])
               => /\ Requests' = Requests
                  /\ expvarInts' = expvarInts]_vars

\* the URL with the password removed and the username retained, as the
\* entry point renders URLs
PasswordRemoved(r) ==
    LET u == [inURL[r] EXCEPT !.User = User(inURL[r].User.username)]
    IN  IF entry[r] = "http" THEN URLString(u) ELSE FastURIString(u, TRUE)

HasPassword(r) == entry[r] # "none" /\ inURL[r].User.passwordSet

\* C4: for a request whose URL embeds a username and a password, the url
\* of every log record handed to a sink and the key written into Requests
\* are the URL with the password removed and the username retained.
C4_PasswordNeverLogged ==
    \A r \in ReqIds :
        HasPassword(r)
            => /\ \A s \in 1..MaxSinks : \A i \in 1..Len(sinkGot[r][s]) :
                      sinkGot[r][s][i].URL = PasswordRemoved(r)
               /\ logpc[r] \in {"creating", "add", "adding", "done"}
                      => /\ logArgs[r].url = PasswordRemoved(r)
                         /\ PasswordRemoved(r) \in DOMAIN Requests

\* the values of a header in the response as sent
SentValues(r, k) == {p[2] : p \in {q \in w[r].sent : q[1] = k}}

\* C5: on both entry points every proxied response carries X-Request-ID
\* equal to the identifier minted for the request, also when the wrapped
\* handler sets that header itself.
C5_IdentifierHeaderLast ==
    \A r \in ReqIds :
        (pc[r] = "returned" /\ ~DiagnosticRequest(r))
            => SentValues(r, XRequestID) = {requestID[r]}

\* the status a handler sets: that of its first WriteHeader when it comes
\* before any Write, 200 otherwise
RECURSIVE StatusSetBy(_)
StatusSetBy(ops) ==
    IF ops = <<>> \/ Head(ops).op \in {"Write", "Panic"} THEN 200
    ELSE IF Head(ops).op = "WriteHeader" THEN Head(ops).code
    ELSE StatusSetBy(Tail(ops))

WithoutHeader(h, k) == {p \in h : p[1] # k}

ProxiedHTTP(r) == entry[r] = "http" /\ ~DiagnosticRequest(r)

\* C6: for a non-diagnostic ServeHTTP request the status, the body and the
\* headers other than X-Request-ID that reach the real ResponseWriter are
\* those the handler wrote to the recorder (status 200 when it set none),
\* and nothing reaches the real writer while or because the handler runs.
C6_ResponseIsRecorded ==
    \A r \in ReqIds :
        ProxiedHTTP(r)
            => /\ pc[r] # "returned" => w[r] = NewWriter
               /\ pc[r] = "returned"
                      => /\ w[r].status = rec[r].Code
                         /\ w[r].status = StatusSetBy(handler.prog)
                         /\ w[r].body = rec[r].Body
                         /\ WithoutHeader(w[r].sent, XRequestID)
                                = WithoutHeader(rec[r].Header, XRequestID)

\* a handler that set 404 and a body has been relayed
C6_Witness ==
    \E r \in ReqIds :
        /\ ProxiedHTTP(r) /\ pc[r] = "returned"
        /\ w[r].status = 404
        /\ w[r].body = <<TextChunk(TestResponseBody)>>
        /\ w[r].sent = {<<XRequestID, requestID[r]>>}

RegisteredSinks == 1..Len(loggers)

\* C7: ServeHTTP writes the response and returns whatever the sinks and the
\* counter lock are doing: once the handler has returned, the step that
\* writes the response and returns is never blocked.
C7_RespondsWithoutWaiting ==
    \A r \in ReqIds :
        (Running /\ pc[r] = "recorded" /\ entry[r] = "http")
            => ENABLED ServeHTTPRespond(r)

\* a request has been answered while its own log has not begun, every sink
\* of an earlier request blocks and the lock is held by that request's log
C7_Witness ==
    \E r, q \in ReqIds :
        /\ r # q
        /\ entry[r] = "http" /\ pc[r] = "returned" /\ w[r].wroteHeader
        /\ logpc[r] = "spawned"
        /\ lock.writer = q
        /\ \A s \in RegisteredSinks : sinkpc[q][s] = "blocked"

\* the log of request r has returned and every sink that its range of line
\* 208 ranged over has the record
LoggedAndCounted(r) ==
    /\ Done(r)
    /\ \A s \in 1..MaxSinks : sinkpc[r][s] # "none" => Len(sinkGot[r][s]) > 0

\* C8: when a sink's Log has panicked on a request's record, the other
\* sinks can still be handed that record, the request's counter can still
\* be incremented, and a later request can still be served.
C8_SinkFaultIsolated ==
    \A r \in ReqIds : \A s \in RegisteredSinks :
        sinkpc[r][s] = "panicked"
            => /\ \A t \in RegisteredSinks :
                      sinkpc[r][t] = "pending" => ENABLED SinkLog(r, t)
               /\ logpc[r] = "check" => ENABLED LogRLock(r)
               /\ \A q \in ReqIds :
                      pc[q] = "idle" => ENABLED (\E u \in URLs : ServeHTTPBegin(q, u))

\* C9: a request whose response has been written is logged to every sink
\* and counted, or a step towards that can still be taken: logging and
\* counting are never stopped for good.
C9_EventuallyLoggedAndCounted ==
    \A r \in ReqIds :
        pc[r] = "returned" => (LoggedAndCounted(r) \/ ENABLED Next)

HandlerSetsOwnID ==
    \E i \in 1..Len(handler.prog) :
        handler.prog[i].op = "SetHeader" /\ handler.prog[i].k = XRequestID

\* the requests whose log has started are proxied and no two share a key
DistinctRoutes ==
    \A r, q \in ReqIds :
        (Started(r) /\ Started(q))
            => /\ ~DiagnosticRequest(r)
               /\ r # q => logArgs[r].url # logArgs[q].url

\* C10: when identifier generation fails on every call, every response
\* and every log record carries the sentinel and no logging-and-counting
\* step faults, here for requests to distinct proxied routes (responses of
\* a fasthttp handler that sets X-Request-ID itself are left to C5).
C10_SentinelNeverAborts ==
    ~entropyOK
        => /\ \A r \in ReqIds :
                  /\ (pc[r] = "returned" /\ ~(entry[r] = "fast" /\ HandlerSetsOwnID))
                         => SentValues(r, XRequestID) = {DefaultBrokenUUID}
                  /\ \A s \in RegisteredSinks : \A i \in 1..Len(sinkGot[r][s]) :
                         sinkGot[r][s][i].RequestID = DefaultBrokenUUID
           /\ DistinctRoutes => crashed # "panic in expvar.NewInt"

\* the step in which request r ranges over m.Requests for the snapshot
ReadsRequestsForSnapshot(r) ==
    /\ pc[r] = "idle"
    /\ pc'[r] # "idle"
    /\ IsDiagnostic(IF entry'[r] = "http" THEN URLString(inURL'[r])
                    ELSE FastURIString(inURL'[r], keepUserinfo))

\* C11: the snapshot reads Requests under the shared lock, so it never
\* reads the map while a log task holds the exclusive lock on it.
C11_SnapshotUnderSharedLock ==
    [][\A r \in ReqIds : ReadsRequestsForSnapshot(r) => lock.writer = 0]_vars

\* C12: a key once in Requests stays in it, and the hit count observable
\* for the key never decreases from one state to the next (here for the
\* keys of proxied routes).
C12_CountNeverDecreases ==
    [][\A k \in DOMAIN Requests :
           ~IsDiagnostic(k)
               => /\ k \in DOMAIN Requests'
                  /\ expvarInts'[Requests'[k]] >= CounterValue(k)]_vars

\* C13: NewMiddleware returns a Middleware exactly when the handler is an
\* http.Handler or a FasthttpHandler, a handler that is both included; it
\* panics when the handler is neither.  The Middleware it returns has the
\* default sink as its only sink, at index 0 also once AddLogger has
\* appended others, and an empty Requests until traffic arrives.
C13_ReturnsIffSomeCapability ==
    /\ \/ (constructed /\ Len(loggers) = 1 /\ loggers[1] \in {"ok", "block"}
              /\ Requests = EmptyMap)
       \/ (~constructed /\ ~handler.isNetHTTP /\ ~handler.isFastHTTP)
    /\ [](/\ constructed <=> (handler.isNetHTTP \/ handler.isFastHTTP)
          /\ constructed => (Len(loggers) >= 1 /\ loggers[1] \in {"ok", "block"})
          /\ ~constructed => (loggers = <<>> /\ NoTrafficYet)
          /\ NoTrafficYet => Requests = EmptyMap)

\* NewMiddleware has returned a Middleware around a handler that is both
\* an http.Handler and a FasthttpHandler, and a sink has been appended
C13_Witness ==
    /\ constructed
    /\ handler.isNetHTTP /\ handler.isFastHTTP
    /\ Len(loggers) = 2

\* C13 as stated: construction succeeds exactly when the handler has
\* exactly one of the two capabilities.
C13_ExactlyOneCapability ==
    constructed <=> (handler.isNetHTTP # handler.isFastHTTP)

\* C14: the status of the log record of a request, as passed to log and
\* as every sink receives it, is the status written to the real response,
\* and for a proxied request it is the status the handler set (200 when
\* it set none).
C14_LoggedStatusIsHandlerStatus ==
    \A r \in ReqIds :
        Started(r)
            => /\ logArgs[r].status = w[r].status
               /\ ~DiagnosticRequest(r) => logArgs[r].status = StatusSetBy(handler.prog)
               /\ \A s \in 1..MaxSinks : \A i \in 1..Len(sinkGot[r][s]) :
                      sinkGot[r][s][i].Status = w[r].status

\* a sink has the record of a request whose handler set 404, and 404 is
\* what the caller got
C14_Witness ==
    \E r \in ReqIds :
        /\ StatusSetBy(handler.prog) = 404
        /\ w[r].status = 404
        /\ sinkGot[r][1] # <<>>
        /\ sinkGot[r][1][1].Status = 404

\* C15: the response of every ServeHTTP request, proxied or diagnostic,
\* carries one X-Request-ID value, it is not empty, and it is the
\* request_id of the log record of that request.
C15_IdentifierOnEveryResponse ==
    \A r \in ReqIds :
        (entry[r] = "http" /\ pc[r] = "returned")
            => /\ SentValues(r, XRequestID) = {requestID[r]}
               /\ requestID[r] # ""
               /\ logArgs[r].requestID = requestID[r]
               /\ \A s \in 1..MaxSinks : \A i \in 1..Len(sinkGot[r][s]) :
                      SentValues(r, XRequestID) = {sinkGot[r][s][i].RequestID}

\* a diagnostic request and a request whose handler set X-Request-ID
\* itself have been answered, and a sink has the record of the latter
C15_Witness ==
    \E r, q \in ReqIds :
        /\ entry[r] = "http" /\ DiagnosticRequest(r) /\ pc[r] = "returned"
        /\ entry[q] = "http" /\ ~DiagnosticRequest(q) /\ HandlerSetsOwnID
        /\ sinkGot[q][1] # <<>>
        /\ SentValues(q, XRequestID) = {sinkGot[q][1][1].RequestID}

\* the keys of Requests with their hit counts
HitCounts == {<<k, CounterValue(k)>> : k \in DOMAIN Requests}

DiagnosticHTTP(r) == entry[r] = "http" /\ DiagnosticRequest(r)

\* C16: a ServeHTTP request for the diagnostic route never reaches the
\* wrapped handler (nothing is ever recorded for it); the snapshot it takes
\* is the keys of Requests with their hit counts as they are when it is
\* taken; and the response it returns has status 200 and that snapshot,
\* serialized, as its whole body.
C16_DiagnosticReturnsSnapshot ==
    /\ [](\A r \in ReqIds :
              DiagnosticHTTP(r)
                  => /\ pc[r] # "invoked"
                     /\ rec[r] = NewRecorder
                     /\ pc[r] = "returned" => w[r].status = 200)
    /\ [][\A r \in ReqIds :
              /\ (pc[r] = "idle" /\ pc'[r] = "recorded" /\ entry'[r] = "http")
                     => resp'[r] = <<JSONChunk(HitCounts)>>
              /\ (DiagnosticHTTP(r) /\ pc[r] = "recorded" /\ pc'[r] = "returned")
                     => w'[r].body = resp[r]]_vars

\* a diagnostic ServeHTTP request has returned a snapshot in which a
\* route has one hit
C16_Witness ==
    \E r \in ReqIds :
        /\ DiagnosticHTTP(r)
        /\ pc[r] = "returned"
        /\ w[r].status = 200
        /\ \E k \in DOMAIN Requests :
               w[r].body = <<JSONChunk({<<k, 1>>})>>

\* C17: with the sinks registered before traffic, the default sink is the
\* first of them; once log has started its goroutines for a request,
\* every registered sink and no other has a Log call of its own, each sink
\* is called at most once and with the one LogEntry of the request, and a
\* sink that has not been called yet still can be: no sink is skipped.
C17_OneLogCallPerSink ==
    /\ constructed => loggers[1] \in {"ok", "block"}
    /\ \A r \in ReqIds : \A s \in 1..MaxSinks :
           /\ Len(sinkGot[r][s]) <= 1
           /\ \A i \in 1..Len(sinkGot[r][s]) :
                  sinkGot[r][s][i] = LogEntry(logArgs[r])
           /\ (Len(sinkGot[r][s]) = 1)
                  <=> sinkpc[r][s] \in {"returned", "blocked", "panicked"}
           /\ logpc[r] \notin {"none", "spawned"}
                  => /\ s \in RegisteredSinks <=> sinkpc[r][s] # "none"
                     /\ (s \in RegisteredSinks /\ sinkGot[r][s] = <<>>)
                            => ENABLED SinkLog(r, s)

\* the URL of request r as it arrived, less its password when it has one
WithoutPassword(r) == IF HasPassword(r) THEN PasswordRemoved(r) ELSE ArrivalString(r)

\* the requests for the same proxied route as r whose log has returned
CountedLike(r) ==
    {q \in ReqIds : /\ Done(q)
                    /\ ProxiedHTTP(q)
                    /\ WithoutPassword(q) = WithoutPassword(r)}

\* C18: when ServeHTTP requests are served one after the other, each
\* background task returning before the next request arrives, then once
\* the task of the k-th request for a proxied URL has returned, Requests
\* has that URL without its password as a key and the counter under it is
\* k (1 after the first request on a fresh Middleware).
C18_SequentialRequestsCounted ==
    NoTaskInFlight
        => \A r \in ReqIds :
               (Done(r) /\ ProxiedHTTP(r))
                   => /\ WithoutPassword(r) \in DOMAIN Requests
                      /\ CounterValue(WithoutPassword(r)) = Cardinality(CountedLike(r))

\* every request the model has was for the URL with a password, one after
\* the other, and the counter of the URL without it holds their number
C18_Witness ==
    /\ NoTaskInFlight
    /\ \A r \in ReqIds : Done(r) /\ entry[r] = "http" /\ inURL[r] = TestURL
    /\ \E k \in DOMAIN Requests :
           /\ k = WithoutPassword(1)
           /\ k # URLString(TestURL)
           /\ CounterValue(k) = MaxReq

\* C19: sanitization leaves the request alone: once ServeHTTP has returned,
\* the URL of the inbound request is what it was when the request arrived.
C19_RequestURLUntouched ==
    \A r \in ReqIds :
        (entry[r] = "http" /\ pc[r] = "returned") => reqURL[r] = inURL[r]

\* RECEIVED -> IDENTIFIED -> HANDLER_INVOKED -> RECORDED -> RESPONDED as
\* positions of ServeHTTP: the identifier is minted in the step that
\* leaves "idle"
ServeHTTPOrder ==
    {<<"idle", "invoked">>, <<"idle", "recorded">>, <<"idle", "panicked">>,
     <<"invoked", "recorded">>, <<"invoked", "panicked">>, <<"recorded", "returned">>}

\* the positions of the log goroutine, in order
LogOrder ==
    {<<"none", "spawned">>, <<"spawned", "check">>, <<"check", "checking">>,
     <<"checking", "create">>, <<"checking", "add">>, <<"create", "creating">>,
     <<"creating", "add">>, <<"add", "adding">>, <<"adding", "done">>}

\* C20: a ServeHTTP request goes through its states in order.  The
\* identifier exists and the start time has been read before the handler
\* is invoked, the start time is a reading earlier than the handler's
\* invocation, it is never read again and it is the time of the request's
\* record; the handler has
\* recorded nothing before it is invoked; nothing is written to the real
\* writer before ServeHTTP is past the handler; and the log goroutine, so
\* every sink call and every creation or increment of the counter, exists
\* only once the status and the body have been written to the real writer.
C20_StatesInOrder ==
    /\ [](\A r \in ReqIds :
              entry[r] = "http"
                  => /\ pc[r] # "idle" => requestID[r] # ""
                     /\ pc[r] # "idle" => t0[r] # 0
                     /\ pc[r] = "invoked" => t0[r] < Now(r)
                     /\ logpc[r] # "none" => logArgs[r].t0 = t0[r]
                     /\ \A s \in 1..MaxSinks : \A i \in 1..Len(sinkGot[r][s]) :
                            sinkGot[r][s][i].Time = t0[r]
                     /\ pc[r] = "invoked" => rec[r] = NewRecorder
                     /\ pc[r] # "returned"
                            => /\ w[r] = NewWriter
                               /\ logpc[r] = "none"
                     /\ (logpc[r] # "none"
                            \/ \E s \in 1..MaxSinks :
                                   sinkpc[r][s] # "none" \/ sinkGot[r][s] # <<>>)
                            => /\ pc[r] = "returned"
                               /\ w[r].wroteHeader
                               /\ w[r].status = ResponseStatus(DiagnosticRequest(r), rec[r])
                               /\ w[r].body = resp[r])
    /\ [][\A r \in ReqIds :
              /\ pc'[r] # pc[r] => <<pc[r], pc'[r]>> \in ServeHTTPOrder
              /\ t0'[r] # t0[r] => (pc[r] = "idle" /\ t0'[r] = Now(r))
              /\ logpc'[r] # logpc[r] => <<logpc[r], logpc'[r]>> \in LogOrder
              /\ (logpc'[r] # logpc[r]
                     /\ (Requests' # Requests \/ expvarInts' # expvarInts))
                     => w[r].wroteHeader /\ w[r].body = resp[r]]_vars

\* a request was identified, handled, answered with 404 and its body, and
\* then logged and counted
C20_Witness ==
    \E r \in ReqIds :
        /\ entry[r] = "http"
        /\ pc[r] = "returned"
        /\ w[r].status = 404 /\ w[r].body = rec[r].Body /\ w[r].body # <<>>
        /\ Done(r)
        /\ t0[r] = 1
        /\ sinkGot[r][1] = <<LogEntry(logArgs[r])>>
        /\ sinkGot[r][1][1].Time = t0[r]
        /\ sinkGot[r][1] # <<>>
        /\ CounterValue(logArgs[r].url) >= 1

\* C21: when the wrapped handler panics in ServeHTTP, the call ends in
\* that panic and nothing else comes of the request: the real writer is
\* as it was handed in, no log goroutine and no sink call exist for the
\* request, Requests gets no key from it, and no step of the request (the
\* handler again, the response, log) can follow.
C21_HandlerPanicLeavesNoTrace ==
    \A r \in ReqIds :
        (ProxiedHTTP(r) /\ Panics(handler.prog))
            => /\ pc[r] \in {"invoked", "panicked"}
               /\ w[r] = NewWriter
               /\ logpc[r] = "none"
               /\ \A s \in 1..MaxSinks : sinkpc[r][s] = "none" /\ sinkGot[r][s] = <<>>
               /\ WithoutPassword(r) \notin DOMAIN Requests
               /\ URLString(inURL[r]) \notin DOMAIN Requests
               /\ pc[r] = "panicked"
                      => /\ ~ENABLED HandlerServeHTTP(r)
                         /\ ~ENABLED ServeHTTPRespond(r)
                         /\ ~ENABLED LogStart(r)

\* the handler had recorded a status and a body when it panicked, a
\* later request for the diagnostic route was answered, and the process
\* lives
C21_Witness ==
    \E r, q \in ReqIds :
        /\ ProxiedHTTP(r) /\ pc[r] = "panicked"
        /\ rec[r].Code = 500 /\ rec[r].Body # <<>>
        /\ r < q /\ pc[q] = "returned"
        /\ crashed = "no"

\* C22: once NewMiddleware has accepted the handler, no call of ServeHTTP
\* or ServeFastHTTP for a proxied route faults for want of the capability
\* its entry point uses: such a request panics only where the handler
\* itself does.
C22_NoFaultForMissingCapability ==
    \A r \in ReqIds :
        (constructed /\ pc[r] = "panicked" /\ ~DiagnosticRequest(r))
            => /\ Panics(handler.prog)
               /\ entry[r] = "http" => handler.isNetHTTP
               /\ entry[r] = "fast" => handler.isFastHTTP

\* C23: the lock is held by log goroutines only, each between an
\* acquisition and the release that follows it (shared while it looks the
\* key up, exclusive while it creates or increments), so never by the
\* goroutine that invokes the handler or a sink's Log; a writer excludes
\* every other holder; a holder's release is never blocked; and when the
\* lock is free every log goroutine waiting for it can take it, whatever
\* the sinks and the handlers of other requests are doing.
C23_LockNeverHeldAcrossCalls ==
    /\ lock.writer \in ReqIds \cup {0}
    /\ lock.writer # 0 => lock.readers = {}
    /\ \A r \in ReqIds :
           /\ lock.writer = r <=> logpc[r] \in {"creating", "adding"}
           /\ r \in lock.readers <=> logpc[r] = "checking"
           /\ Running
                  => /\ logpc[r] = "checking" => ENABLED LogRUnlock(r)
                     /\ logpc[r] = "creating" => ENABLED LogUnlockCreate(r)
                     /\ logpc[r] = "adding" => ENABLED LogUnlockAdd(r)
                     /\ (logpc[r] = "check" /\ lock.writer = 0) => ENABLED LogRLock(r)
                     /\ (logpc[r] = "create" /\ CanLock) => ENABLED LogLockCreate(r)
                     /\ (logpc[r] = "add" /\ CanLock) => ENABLED LogLockAdd(r)

\* the sink never returned from the record of either of two requests,
\* the log of one has finished all the same and the log of the other
\* holds the lock exclusively
C23_Witness ==
    \E r, q \in ReqIds :
        /\ r # q
        /\ sinkpc[q][1] = "blocked" /\ sinkpc[r][1] = "blocked"
        /\ logpc[q] = "done"
        /\ lock.writer = r

\* the requests whose log has started, by the Middleware that served them
StartedVia(i) == {r \in ReqIds : Started(r) /\ via[r] = i}

\* each Middleware has served at most one request, all for one route
OneRequestEachSameRoute ==
    \A r, q \in ReqIds :
        (Started(r) /\ Started(q) /\ r # q)
            => /\ via[r] # via[q]
               /\ logArgs[r].url = logArgs[q].url

\* C24: two Middlewares of one process keep separate counters: the keys
\* of each one's Requests come from the requests it served itself, a route
\* both have served has a counter of its own in each, and when each has
\* served one request for the same route, creating the second counter
\* does not fault and each counter ends at 1.
C24_InstancesKeepSeparateCounters ==
    /\ \A k \in DOMAIN Requests : \E r \in StartedVia(1) : logArgs[r].url = k
    /\ \A k \in DOMAIN Requests2 : \E r \in StartedVia(2) : logArgs[r].url = k
    /\ \A k \in DOMAIN Requests \cap DOMAIN Requests2 : Requests[k] # Requests2[k]
    /\ OneRequestEachSameRoute
           => /\ crashed # "panic in expvar.NewInt"
              /\ \A r \in ReqIds :
                     Done(r) => expvarInts[RequestsOf(via[r])[logArgs[r].url]] = 1

====
